---- MODULE Spec2Model ----
(***************************************************************************)
(* Model of Script/data_loader.py: the train_data_loader and               *)
(* test_data_loader batching iterators.                                    *)
(*                                                                         *)
(* Sample indices are 0-based as in the source; TLA+ sequences are         *)
(* 1-based, so element i of a Python list a is a[i + 1] here.              *)
(***************************************************************************)
EXTENDS Integers, Sequences, FiniteSets, TLC

(***************************************************************************)
(* Bounds of the explored inputs.                                          *)
(***************************************************************************)
MaxSamples == 3
\* longest raw token sequence stored in a channel file
MaxRawLen == 3
\* batch_size is drawn from 0..MaxBatchSize
MaxBatchSize == 3
\* max_seq_len is drawn from 0..MaxSeqLen
MaxSeqLen == 3
\* seq_inp_target and seq_inp_path hold at most MaxListLen entries
MaxListLen == 2

(***************************************************************************)
(* Python and numpy helpers.                                               *)
(***************************************************************************)
Min(a, b) == IF a <= b THEN a ELSE b

Range(s) == {s[i] : i \in DOMAIN s}

\* a[lo:hi] for 0 <= lo, 0 <= hi: both ends are clamped to len(a)
Slice(a, lo, hi) ==
  LET l == Min(lo, Len(a))
      h == Min(hi, Len(a))
  IN  IF h <= l THEN << >> ELSE [k \in 1..(h - l) |-> a[l + k]]

\* zip(a, b): stops at the shorter of the two lists
Zip(a, b) == [k \in 1..Min(Len(a), Len(b)) |-> << a[k], b[k] >>]

\* np.arange(n)
Arange(n) == [k \in 1..n |-> k - 1]

\* a path is the list path.split('.'); Suffix is path.split('.')[-1]
Suffix(path) == path[Len(path)]

\* divmod(a, b) for a >= 0, b >= 1
DivMod(a, b) == << a \div b, a % b >>

\* every ordering np.random.shuffle can leave a 1-d array in
Orderings(a) ==
  { [k \in 1..Len(a) |-> a[f[k]]] :
      f \in { g \in [1..Len(a) -> 1..Len(a)] : \A i, j \in 1..Len(a) : g[i] = g[j] => i = j } }


(***************************************************************************)
(* The environment: the embedding registry, the Word2Vec artifacts and the *)
(* files on disk.                                                          *)
(***************************************************************************)
w2v_registry == [product |-> "product_embed", creative |-> "creative_embed"]

\* Word2Vec.load(path).wv: token -> vector, one table per artifact
Word2Vec ==
  [product_embed  |-> (1 :> << 5, 0 >>) @@ (2 :> << 0, 7 >>),
   creative_embed |-> (1 :> << 4 >>) @@ (2 :> << 9 >>)]

\* a token that is in no table
UnknownToken == 1 + Cardinality(DOMAIN Word2Vec.product_embed)

ProductPkl == << "product", "pkl" >>

CreativePkl == << "creative", "pkl" >>

CreativeTxt == << "creative", "txt" >>

\* a channel file holding tokens that are in no table
ClickPkl == << "click", "pkl" >>

TrainNpy == << "train", "npy" >>

TrainTxt == << "train", "txt" >>

\* token at position p (1-based) of sample i (0-based) of a generated file
TokenAt(i, p) == ((i + p) % 2) + 1

\* raw length of sample i under each generated shape
RawLen(shape, i) ==
  CASE shape = "up"    -> 1 + (i % MaxRawLen)
    [] shape = "down"  -> MaxRawLen - (i % MaxRawLen)
    [] shape = "blank" -> i % (MaxRawLen + 1)
    [] shape = "oov"   -> MaxRawLen - (i % MaxRawLen)

\* a pickled channel file: a list of n raw token sequences
SeqFile(n, shape) ==
  [k \in 1..n |->
     [p \in 1..RawLen(shape, k - 1) |->
        IF shape = "oov" /\ p = RawLen(shape, k - 1) THEN UnknownToken
        ELSE TokenAt(k - 1, p)]]

SeqFiles == { SeqFile(n, shape) : n \in 0..MaxSamples, shape \in {"up", "down", "blank", "oov"} }

\* a label file: a 1-d array of n class labels
LabelFile(n) == [k \in 1..n |-> (7 * k) % 10]

LabelFiles == { LabelFile(n) : n \in 0..MaxSamples }

(***************************************************************************)
(* Construction.  A step of construction either raises (ok = FALSE, with   *)
(* the exception and the step that raises it) or returns a value.          *)
(***************************************************************************)
Raise(exc, step) == [ok |-> FALSE, exc |-> exc, step |-> step]

Return(val) == [ok |-> TRUE, val |-> val]

\* _load_label: open(self.label_artifact_path) and np.load
train_data_loader_load_label(path, disk) ==
  IF path \notin DOMAIN disk THEN Raise("FileNotFoundError", "open label")
  ELSE Return(disk[path])

\* EmbedSeq skipping the tokens that are in no table
EmbedSeqSkipsUnknown(seq, wv, max_seq_len) ==
  LET head == SelectSeq(Slice(seq, 0, max_seq_len), LAMBDA t : t \in DOMAIN wv)
  IN  IF Len(head) = 0 THEN Raise("ValueError", "np.stack")
      ELSE Return([p \in DOMAIN head |-> wv[head[p]]])

\* EmbedSeq with a stack that accepts no rows and gives an array of shape (0,)
EmbedSeqAllowsEmpty(seq, wv, max_seq_len) ==
  LET head == Slice(seq, 0, max_seq_len)
  IN  IF \E p \in DOMAIN head : head[p] \notin DOMAIN wv THEN Raise("KeyError", "wv[item]")
      ELSE Return([p \in DOMAIN head |-> wv[head[p]]])

\* np.stack([w2v_model.wv[item] for item in seq[:self.max_seq_len]], axis=0)
EmbedSeq(seq, wv, max_seq_len) ==
  LET head == Slice(seq, 0, max_seq_len)
  IN  IF \E p \in DOMAIN head : head[p] \notin DOMAIN wv THEN Raise("KeyError", "wv[item]")
      ELSE IF Len(head) = 0 THEN Raise("ValueError", "np.stack")
      ELSE Return([p \in DOMAIN head |-> wv[head[p]]])

\* one turn of the loop of _load_seq_inp: the embedded sequences of one channel
LoadChannel(target, path, disk, max_seq_len) ==
  IF path \notin DOMAIN disk THEN Raise("FileNotFoundError", "open seq")
  ELSE
    LET wv       == Word2Vec[w2v_registry[target]]
        seq_list == disk[path]
        emb      == [k \in DOMAIN seq_list |-> EmbedSeq(seq_list[k], wv, max_seq_len)]
        bad      == { k \in DOMAIN emb : ~emb[k].ok }
    IN  IF bad # {} THEN emb[CHOOSE k \in bad : \A j \in bad : k <= j]
        ELSE Return([k \in DOMAIN emb |-> emb[k].val])

\* train_data_loader._load_seq_inp: one channel per pair of
\* zip(seq_inp_target, seq_inp_path)
train_data_loader_load_seq_inp(seq_inp_target, seq_inp_path, disk, max_seq_len) ==
  LET pairs == Zip(seq_inp_target, seq_inp_path)
      chan  == [k \in DOMAIN pairs |-> LoadChannel(pairs[k][1], pairs[k][2], disk, max_seq_len)]
      bad   == { k \in DOMAIN chan : ~chan[k].ok }
  IN  IF bad # {} THEN chan[CHOOSE k \in bad : \A j \in bad : k <= j]
      ELSE Return([k \in DOMAIN chan |-> chan[k].val])

\* test_data_loader._load_seq_inp
test_data_loader_load_seq_inp(seq_inp_target, seq_inp_path, disk, max_seq_len) ==
  LET pairs == Zip(seq_inp_target, seq_inp_path)
      chan  == [k \in DOMAIN pairs |-> LoadChannel(pairs[k][1], pairs[k][2], disk, max_seq_len)]
      bad   == { k \in DOMAIN chan : ~chan[k].ok }
  IN  IF bad # {} THEN chan[CHOOSE k \in bad : \A j \in bad : k <= j]
      ELSE Return([k \in DOMAIN chan |-> chan[k].val])

\* LastIdx without the "- 1": the length where the last index is meant
LastIdxIsLength(inp_seq) == [k \in DOMAIN inp_seq[1] |-> Len(inp_seq[1][k])]

\* np.array([i.shape[0] for i in self.inp_seq[0]]) - 1
LastIdx(inp_seq) == [k \in DOMAIN inp_seq[1] |-> Len(inp_seq[1][k]) - 1]

\* NBatch without the batch of the remainder
NBatchFloor(len, batch_size) == DivMod(len, batch_size)[1]

\* div + min(mod, 1)
NBatch(len, batch_size) ==
  LET dm == DivMod(len, batch_size) IN dm[1] + Min(dm[2], 1)

\* YieldIdx shuffling whatever the flag says
YieldIdxAlwaysShuffled(len, shuffle) == Orderings(Arange(len))

\* self.yield_idx after lines 80-81: np.random.shuffle may leave any ordering
YieldIdx(len, shuffle) == IF shuffle THEN Orderings(Arange(len)) ELSE {Arange(len)}

\* the assert of lines 55 and 152
TargetsAndPathsOk(seq_inp_target, seq_inp_path) ==
  /\ \A k \in DOMAIN seq_inp_target : seq_inp_target[k] \in DOMAIN w2v_registry
  /\ \A k \in DOMAIN seq_inp_path : Suffix(seq_inp_path[k]) = "pkl"

\* train_data_loader.__init__: the set of outcomes of one construction
train_data_loader_init(a, disk) ==
  IF Suffix(a.label_artifact_path) # "npy" THEN {Raise("AssertionError", "label suffix")}
  ELSE IF ~TargetsAndPathsOk(a.seq_inp_target, a.seq_inp_path) THEN {Raise("AssertionError", "registry keys and pkl suffix")}
  ELSE
    LET label == train_data_loader_load_label(a.label_artifact_path, disk)
        seqs  == train_data_loader_load_seq_inp(a.seq_inp_target, a.seq_inp_path, disk, a.max_seq_len)
    IN  IF ~label.ok THEN {label}
        ELSE IF ~seqs.ok THEN {seqs}
        ELSE IF Len(seqs.val) = 0 THEN {Raise("IndexError", "inp_seq[0]")}
        ELSE IF Len(label.val) # Len(LastIdx(seqs.val)) THEN {Raise("AssertionError", "label and inp_last_idx shape")}
        ELSE IF a.batch_size = 0 THEN {Raise("ZeroDivisionError", "divmod")}
        ELSE
          { Return([cls |-> "train",
                    label_artifact_path |-> a.label_artifact_path,
                    seq_inp_target |-> a.seq_inp_target,
                    seq_inp_path |-> a.seq_inp_path,
                    max_seq_len |-> a.max_seq_len,
                    batch_size |-> a.batch_size,
                    shuffle |-> a.shuffle,
                    label |-> label.val,
                    inp_seq |-> seqs.val,
                    inp_last_idx |-> LastIdx(seqs.val),
                    len |-> Len(label.val),
                    n_batch |-> NBatch(Len(label.val), a.batch_size),
                    yield_idx |-> perm]) :
              perm \in YieldIdx(Len(label.val), a.shuffle) }

\* test_data_loader.__init__ shuffling the indices as the train loader may
TestInitShuffles(a, disk) ==
  IF ~TargetsAndPathsOk(a.seq_inp_target, a.seq_inp_path) THEN {Raise("AssertionError", "registry keys and pkl suffix")}
  ELSE
    LET seqs == test_data_loader_load_seq_inp(a.seq_inp_target, a.seq_inp_path, disk, a.max_seq_len)
    IN  IF ~seqs.ok THEN {seqs}
        ELSE IF Len(seqs.val) = 0 THEN {Raise("IndexError", "inp_seq[0]")}
        ELSE IF a.batch_size = 0 THEN {Raise("ZeroDivisionError", "divmod")}
        ELSE
          { Return([cls |-> "test",
                    seq_inp_target |-> a.seq_inp_target,
                    seq_inp_path |-> a.seq_inp_path,
                    max_seq_len |-> a.max_seq_len,
                    batch_size |-> a.batch_size,
                    inp_seq |-> seqs.val,
                    inp_last_idx |-> LastIdx(seqs.val),
                    len |-> Len(LastIdx(seqs.val)),
                    n_batch |-> NBatch(Len(LastIdx(seqs.val)), a.batch_size),
                    yield_idx |-> perm]) :
              perm \in Orderings(Arange(Len(LastIdx(seqs.val)))) }

\* test_data_loader.__init__
test_data_loader_init(a, disk) ==
  IF ~TargetsAndPathsOk(a.seq_inp_target, a.seq_inp_path) THEN {Raise("AssertionError", "registry keys and pkl suffix")}
  ELSE
    LET seqs == test_data_loader_load_seq_inp(a.seq_inp_target, a.seq_inp_path, disk, a.max_seq_len)
    IN  IF ~seqs.ok THEN {seqs}
        ELSE IF Len(seqs.val) = 0 THEN {Raise("IndexError", "inp_seq[0]")}
        ELSE IF a.batch_size = 0 THEN {Raise("ZeroDivisionError", "divmod")}
        ELSE
          { Return([cls |-> "test",
                    seq_inp_target |-> a.seq_inp_target,
                    seq_inp_path |-> a.seq_inp_path,
                    max_seq_len |-> a.max_seq_len,
                    batch_size |-> a.batch_size,
                    inp_seq |-> seqs.val,
                    inp_last_idx |-> LastIdx(seqs.val),
                    len |-> Len(LastIdx(seqs.val)),
                    n_batch |-> NBatch(Len(LastIdx(seqs.val)), a.batch_size),
                    yield_idx |-> Arange(Len(LastIdx(seqs.val)))]) }

(***************************************************************************)
(* Iteration.  A loader is the record of the attributes set so far: the    *)
(* attribute cur_batch exists only once __iter__ has run.                  *)
(***************************************************************************)
\* __iter__ recomputing the permutation at every restart
IterRepermutes(obj) ==
  ("cur_batch" :> 0) @@
  [obj EXCEPT !.yield_idx = [k \in DOMAIN @ |-> @[Len(@) + 1 - k]]]

\* __iter__ keeping the cursor of a pass already begun
IterKeepsCursor(obj) == IF "cur_batch" \in DOMAIN obj THEN obj ELSE ("cur_batch" :> 0) @@ obj

\* train_data_loader.__iter__: self.cur_batch = 0; return self
train_data_loader_iter(obj) == ("cur_batch" :> 0) @@ obj

\* __iter__ recounting the batches from the samples not yet yielded
TestIterRecounts(obj) ==
  ("cur_batch" :> 0) @@
  [obj EXCEPT !.n_batch = IF "cur_batch" \in DOMAIN obj THEN @ - Min(@, obj.cur_batch) ELSE @]

\* test_data_loader.__iter__
test_data_loader_iter(obj) == ("cur_batch" :> 0) @@ obj

\* CurIndex with the end of the slice taken as inclusive
CurIndexInclusiveEnd(obj) ==
  Slice(obj.yield_idx, obj.cur_batch * obj.batch_size, (obj.cur_batch + 1) * obj.batch_size + 1)

\* self.yield_idx[self.cur_batch*self.batch_size:(self.cur_batch+1)*self.batch_size]
CurIndex(obj) ==
  Slice(obj.yield_idx, obj.cur_batch * obj.batch_size, (obj.cur_batch + 1) * obj.batch_size)

\* pad_sequence filling with each sequence's last vector instead of the value
PadSequenceEdge(seqs, padding_value) ==
  LET max_len == CHOOSE m \in { Len(seqs[k]) : k \in DOMAIN seqs } :
                   \A k \in DOMAIN seqs : Len(seqs[k]) <= m
  IN  [k \in DOMAIN seqs |->
        [p \in 1..max_len |->
           IF p <= Len(seqs[k]) THEN seqs[k][p] ELSE seqs[k][Len(seqs[k])]]]

\* torch.nn.utils.rnn.pad_sequence(seqs, batch_first=True, padding_value=v)
PadSequence(seqs, padding_value) ==
  LET max_len == CHOOSE m \in { Len(seqs[k]) : k \in DOMAIN seqs } :
                   \A k \in DOMAIN seqs : Len(seqs[k]) <= m
      dim     == Len(seqs[1][1])
  IN  [k \in DOMAIN seqs |->
        [p \in 1..max_len |->
           IF p <= Len(seqs[k]) THEN seqs[k][p] ELSE [d \in 1..dim |-> padding_value]]]

\* [seq[i] for i in cur_index]
Gather(seq, cur_index) == [k \in DOMAIN cur_index |-> seq[cur_index[k] + 1]]

\* x_seq padded to max_seq_len instead of the longest sequence of the batch
XSeqGlobalWidth(obj, cur_index) ==
  [c \in DOMAIN obj.inp_seq |->
     [k \in DOMAIN cur_index |->
        LET row == obj.inp_seq[c][cur_index[k] + 1]
        IN  [p \in 1..obj.max_seq_len |->
               IF p <= Len(row) THEN row[p] ELSE [d \in DOMAIN row[1] |-> 0]]]]

\* x_seq of lines 113 and 198: one padded tensor per loaded channel
XSeq(obj, cur_index) ==
  [c \in DOMAIN obj.inp_seq |-> PadSequence(Gather(obj.inp_seq[c], cur_index), 0)]

\* seq[i] raises IndexError when a channel holds fewer samples than i + 1
GatherFails(obj, cur_index) ==
  \E c \in DOMAIN obj.inp_seq : \E k \in DOMAIN cur_index :
     cur_index[k] + 1 > Len(obj.inp_seq[c])

\* __next__ rewinding the cursor when the pass is exhausted
NextRewinds(obj) ==
  IF "cur_batch" \notin DOMAIN obj
  THEN [obj |-> obj, ret |-> Raise("AttributeError", "self.cur_batch")]
  ELSE IF obj.cur_batch >= obj.n_batch
  THEN [obj |-> [obj EXCEPT !.cur_batch = 0], ret |-> Raise("StopIteration", "raise")]
  ELSE
    LET cur_index == CurIndex(obj)
    IN  IF GatherFails(obj, cur_index)
        THEN [obj |-> obj, ret |-> Raise("IndexError", "seq[i]")]
        ELSE [obj |-> [obj EXCEPT !.cur_batch = @ + 1],
              ret |-> Return(<< Gather(obj.label, cur_index),
                                XSeq(obj, cur_index),
                                Gather(obj.inp_last_idx, cur_index) >>)]

\* __next__ starting a pass by itself when __iter__ has not run
NextDefaultsCursor(obj) ==
  LET o == IF "cur_batch" \in DOMAIN obj THEN obj ELSE ("cur_batch" :> 0) @@ obj
  IN  IF o.cur_batch >= o.n_batch
      THEN [obj |-> o, ret |-> Raise("StopIteration", "raise")]
      ELSE
        LET cur_index == CurIndex(o)
        IN  IF GatherFails(o, cur_index)
            THEN [obj |-> o, ret |-> Raise("IndexError", "seq[i]")]
            ELSE [obj |-> [o EXCEPT !.cur_batch = @ + 1],
                  ret |-> Return(<< Gather(o.label, cur_index),
                                    XSeq(o, cur_index),
                                    Gather(o.inp_last_idx, cur_index) >>)]

\* train_data_loader.__next__: the loader after the call and what the call
\* returns or raises
train_data_loader_next(obj) ==
  IF "cur_batch" \notin DOMAIN obj
  THEN [obj |-> obj, ret |-> Raise("AttributeError", "self.cur_batch")]
  ELSE IF obj.cur_batch >= obj.n_batch
  THEN [obj |-> obj, ret |-> Raise("StopIteration", "raise")]
  ELSE
    LET cur_index == CurIndex(obj)
    IN  IF GatherFails(obj, cur_index)
        THEN [obj |-> obj, ret |-> Raise("IndexError", "seq[i]")]
        ELSE [obj |-> [obj EXCEPT !.cur_batch = @ + 1],
              ret |-> Return(<< Gather(obj.label, cur_index),
                                XSeq(obj, cur_index),
                                Gather(obj.inp_last_idx, cur_index) >>)]

\* __next__ advancing the cursor by two
TestNextSkips(obj) ==
  IF "cur_batch" \notin DOMAIN obj
  THEN [obj |-> obj, ret |-> Raise("AttributeError", "self.cur_batch")]
  ELSE IF obj.cur_batch >= obj.n_batch
  THEN [obj |-> obj, ret |-> Raise("StopIteration", "raise")]
  ELSE
    LET cur_index == CurIndex(obj)
    IN  IF GatherFails(obj, cur_index)
        THEN [obj |-> obj, ret |-> Raise("IndexError", "seq[i]")]
        ELSE [obj |-> [obj EXCEPT !.cur_batch = @ + 2],
              ret |-> Return(<< XSeq(obj, cur_index),
                                Gather(obj.inp_last_idx, cur_index) >>)]

\* test_data_loader.__next__
test_data_loader_next(obj) ==
  IF "cur_batch" \notin DOMAIN obj
  THEN [obj |-> obj, ret |-> Raise("AttributeError", "self.cur_batch")]
  ELSE IF obj.cur_batch >= obj.n_batch
  THEN [obj |-> obj, ret |-> Raise("StopIteration", "raise")]
  ELSE
    LET cur_index == CurIndex(obj)
    IN  IF GatherFails(obj, cur_index)
        THEN [obj |-> obj, ret |-> Raise("IndexError", "seq[i]")]
        ELSE [obj |-> [obj EXCEPT !.cur_batch = @ + 1],
              ret |-> Return(<< XSeq(obj, cur_index),
                                Gather(obj.inp_last_idx, cur_index) >>)]

\* train_data_loader.__len__: self.label.shape[0]
train_data_loader_len(obj) == Len(obj.label)

\* test_data_loader.__len__: self.inp_last_idx.shape[0]
test_data_loader_len(obj) == Len(obj.inp_last_idx)

(***************************************************************************)
(* The inputs of a construction: the files on disk and the arguments.      *)
(***************************************************************************)
ChannelNames == << "product", "creative" >>

ChannelPaths == << ProductPkl, CreativePkl >>

\* every list over S of at most n entries
Lists(S, n) == UNION { [1..m -> S] : m \in 0..n }

\* a disk holding files[c] under ChannelPaths[c] and, when labels is a
\* one-element list, that label file under TrainNpy
Disk(files, labels) ==
  [path \in {ChannelPaths[c] : c \in DOMAIN files} \cup {TrainNpy : k \in DOMAIN labels} |->
     IF path = TrainNpy THEN labels[1]
     ELSE files[CHOOSE c \in DOMAIN files : ChannelPaths[c] = path]]

ChannelFiles == UNION { [1..m -> SeqFiles] : m \in 1..Len(ChannelNames) }

\* well-formed argument lists over every combination of generated files
TrainDataInputs ==
  { [disk |-> Disk(files, << lf >>),
     args |-> [label_artifact_path |-> TrainNpy,
               seq_inp_target |-> SubSeq(ChannelNames, 1, Len(files)),
               seq_inp_path |-> SubSeq(ChannelPaths, 1, Len(files)),
               max_seq_len |-> msl, batch_size |-> bs, shuffle |-> sh]] :
      files \in ChannelFiles, lf \in LabelFiles,
      msl \in 0..MaxSeqLen, bs \in 0..MaxBatchSize, sh \in BOOLEAN }

TestDataInputs ==
  { [disk |-> Disk(files, << >>),
     args |-> [seq_inp_target |-> SubSeq(ChannelNames, 1, Len(files)),
               seq_inp_path |-> SubSeq(ChannelPaths, 1, Len(files)),
               max_seq_len |-> msl, batch_size |-> bs]] :
      files \in ChannelFiles, msl \in 0..MaxSeqLen, bs \in 0..MaxBatchSize }

\* every argument list, well formed or not, over one fixed disk
ArgDisk ==
  (ClickPkl :> SeqFile(MaxSamples, "oov")) @@
  Disk(<< SeqFile(MaxSamples, "up"), SeqFile(MaxSamples, "down") >>, << LabelFile(MaxSamples) >>)

ArgTargets == Lists({"product", "creative", "click"}, MaxListLen)

ArgPaths == Lists({ProductPkl, CreativePkl, ClickPkl, CreativeTxt}, MaxListLen)

TrainArgInputs ==
  { [disk |-> ArgDisk,
     args |-> [label_artifact_path |-> lp, seq_inp_target |-> t, seq_inp_path |-> p,
               max_seq_len |-> MaxSeqLen, batch_size |-> MaxBatchSize - 1, shuffle |-> sh]] :
      lp \in {TrainNpy, TrainTxt}, t \in ArgTargets, p \in ArgPaths, sh \in BOOLEAN }

TestArgInputs ==
  { [disk |-> ArgDisk,
     args |-> [seq_inp_target |-> t, seq_inp_path |-> p,
               max_seq_len |-> MaxSeqLen, batch_size |-> MaxBatchSize - 1]] :
      t \in ArgTargets, p \in ArgPaths }

TrainInputs == TrainDataInputs \cup TrainArgInputs

TestInputs == TestDataInputs \cup TestArgInputs

(***************************************************************************)
(* The state: the inputs of the construction, its outcome, the loader, a   *)
(* twin loader built from the same inputs with shuffle disabled and driven *)
(* by the same calls, and what the last call returned or raised.           *)
(***************************************************************************)
VARIABLES
  disk,        \* the files the construction reads
  args,        \* the arguments of the construction
  phase,       \* "start", "constructed" or "failed"
  error,       \* what the construction raised, when it failed
  loader,      \* the attributes of the loader
  twin,        \* the attributes of the twin loader
  out,         \* the last call on the loader and its outcome
  twin_out,    \* the outcome of the same call on the twin
  yielded,     \* the windows yielded since the last __iter__
  first_pass,  \* the windows yielded before the second __iter__
  restarted,   \* whether __iter__ has been called more than once
  caller,      \* the consumer that made the last call
  reset_by,    \* the consumer that made the last __iter__ call
  received     \* per consumer, the windows it was yielded since the last __iter__

vars == << disk, args, phase, error, loader, twin, out, twin_out, yielded, first_pass,
           restarted, caller, reset_by, received >>

NoCall == [call |-> "none"]

\* the consumers that may hold the loader as their iterator
Consumers == {"c1", "c2"}

Init ==
  /\ disk = << >>
  /\ args = << >>
  /\ phase = "start"
  /\ error = << >>
  /\ loader = << >>
  /\ twin = << >>
  /\ out = NoCall
  /\ twin_out = NoCall
  /\ yielded = << >>
  /\ first_pass = << >>
  /\ restarted = FALSE
  /\ caller = "none"
  /\ reset_by = "none"
  /\ received = [c \in Consumers |-> << >>]

\* the outcome r of a construction from inp, and t of the twin's
Constructed(inp, r, t) ==
  /\ disk' = inp.disk
  /\ args' = inp.args
  /\ phase' = IF r.ok THEN "constructed" ELSE "failed"
  /\ error' = IF r.ok THEN << >> ELSE r
  /\ loader' = IF r.ok THEN r.val ELSE << >>
  /\ twin' = IF t.ok THEN t.val ELSE << >>
  /\ UNCHANGED << out, twin_out, yielded, first_pass, restarted, caller, reset_by, received >>

\* train_data_loader(label_artifact_path, seq_inp_target, seq_inp_path, ...)
\* with its inputs drawn from inputs
NewTrainLoaderFrom(inputs) ==
  /\ phase = "start"
  /\ \E inp \in inputs :
       \E r \in train_data_loader_init(inp.args, inp.disk) :
         \E t \in train_data_loader_init([inp.args EXCEPT !.shuffle = FALSE], inp.disk) :
           Constructed(inp, r, t)

\* test_data_loader(seq_inp_target, seq_inp_path, ...)
NewTestLoaderFrom(inputs) ==
  /\ phase = "start"
  /\ \E inp \in inputs :
       \E r \in test_data_loader_init(inp.args, inp.disk) :
         Constructed(inp, r, r)

\* consumer c calls iter(loader); the twin gets the same call.  __iter__
\* returns self: the iterator c holds is the loader itself
IterBy(c) ==
  /\ phase = "constructed"
  /\ loader' = IF loader.cls = "train" THEN train_data_loader_iter(loader)
               ELSE test_data_loader_iter(loader)
  /\ twin' = IF twin.cls = "train" THEN train_data_loader_iter(twin)
             ELSE test_data_loader_iter(twin)
  /\ out' = [call |-> "iter"]
  /\ twin_out' = [call |-> "iter"]
  /\ yielded' = << >>
  /\ restarted' = ("cur_batch" \in DOMAIN loader)
  /\ first_pass' = first_pass
  /\ caller' = c
  /\ reset_by' = c
  /\ received' = [d \in Consumers |-> << >>]
  /\ UNCHANGED << disk, args, phase, error >>

\* consumer c calls next(loader); the twin gets the same call
NextBy(c) ==
  /\ phase = "constructed"
  /\ LET r == IF loader.cls = "train" THEN train_data_loader_next(loader)
              ELSE test_data_loader_next(loader)
         t == IF twin.cls = "train" THEN train_data_loader_next(twin)
              ELSE test_data_loader_next(twin)
     IN  /\ loader' = r.obj
         /\ twin' = t.obj
         /\ out' = [call |-> "next", ret |-> r.ret]
         /\ twin_out' = [call |-> "next", ret |-> t.ret]
         /\ yielded' = IF r.ret.ok THEN Append(yielded, CurIndex(loader)) ELSE yielded
         /\ first_pass' = IF r.ret.ok /\ ~restarted THEN Append(first_pass, CurIndex(loader))
                          ELSE first_pass
         /\ received' = IF r.ret.ok THEN [received EXCEPT ![c] = Append(@, CurIndex(loader))]
                        ELSE received
  /\ caller' = c
  /\ UNCHANGED << disk, args, phase, error, restarted, reset_by >>

\* consumer c calls len(loader); the twin gets the same call
LenBy(c) ==
  /\ phase = "constructed"
  /\ out' = [call |-> "len",
             ret |-> Return(IF loader.cls = "train" THEN train_data_loader_len(loader)
                            ELSE test_data_loader_len(loader))]
  /\ twin_out' = [call |-> "len",
                  ret |-> Return(IF twin.cls = "train" THEN train_data_loader_len(twin)
                                 ELSE test_data_loader_len(twin))]
  /\ caller' = c
  /\ UNCHANGED << disk, args, phase, error, loader, twin, yielded, first_pass, restarted,
                  reset_by, received >>

(***************************************************************************)
(* One consumer, every input.                                              *)
(***************************************************************************)
NewTrainLoader == NewTrainLoaderFrom(TrainInputs)

NewTestLoader == NewTestLoaderFrom(TestInputs)

CallIter == IterBy("c1")

CallNext == NextBy("c1")

CallLen == LenBy("c1")

Next == NewTrainLoader \/ NewTestLoader \/ CallIter \/ CallNext \/ CallLen

Spec == Init /\ [][Next]_vars

(***************************************************************************)
(* Two consumers sharing one loader, over one-channel inputs.              *)
(***************************************************************************)
SharedTrainInputs ==
  { inp \in TrainDataInputs :
      /\ inp.disk[ProductPkl] \in { SeqFile(n, "up") : n \in 0..MaxSamples }
      /\ Len(inp.args.seq_inp_path) = 1
      /\ Len(inp.disk[TrainNpy]) = Len(inp.disk[ProductPkl])
      /\ inp.args.max_seq_len = MaxSeqLen
      /\ inp.args.batch_size >= 1 }

SharedTestInputs ==
  { inp \in TestDataInputs :
      /\ inp.disk[ProductPkl] \in { SeqFile(n, "up") : n \in 0..MaxSamples }
      /\ Len(inp.args.seq_inp_path) = 1
      /\ inp.args.max_seq_len = MaxSeqLen
      /\ inp.args.batch_size >= 1 }

NewSharedTrainLoader == NewTrainLoaderFrom(SharedTrainInputs)

NewSharedTestLoader == NewTestLoaderFrom(SharedTestInputs)

SharedIter == \E c \in Consumers : IterBy(c)

SharedNext == \E c \in Consumers : NextBy(c)

NextShared == NewSharedTrainLoader \/ NewSharedTestLoader \/ SharedIter \/ SharedNext

SpecShared == Init /\ [][NextShared]_vars

(***************************************************************************)
(* Vocabulary of the properties, stated over the inputs (disk, args) and   *)
(* over what the calls return.                                             *)
(***************************************************************************)
\* the last call was a next() that returned a batch
BatchYielded == phase = "constructed" /\ out.call = "next" /\ out.ret.ok

\* the last call was a next() that raised exc
NextRaised(exc) ==
  phase = "constructed" /\ out.call = "next" /\ ~out.ret.ok /\ out.ret.exc = exc

\* the parts of the tuple the last next() returned
BatchLabels == out.ret.val[1]

BatchTensors == IF loader.cls = "train" THEN out.ret.val[2] ELSE out.ret.val[1]

BatchLastIdx == IF loader.cls = "train" THEN out.ret.val[3] ELSE out.ret.val[2]

\* the cursor before the step that yielded the last batch, and its window
CursorBefore == loader.cur_batch - 1

Window ==
  Slice(loader.yield_idx, CursorBefore * args.batch_size, (CursorBefore + 1) * args.batch_size)

\* the raw sequence of sample i (0-based) in the file of the c-th path
RawSeq(c, i) == disk[args.seq_inp_path[c]][i + 1]

\* the truncated length of sample i in channel c
TruncLen(c, i) == Min(Len(RawSeq(c, i)), args.max_seq_len)

\* the embedded sequence of sample i in channel c
Embedded(c, i) ==
  [p \in 1..TruncLen(c, i) |-> Word2Vec[w2v_registry[args.seq_inp_target[c]]][RawSeq(c, i)[p]]]

\* ceil(n / b) for n >= 0, b >= 1
CeilDiv(n, b) == CHOOSE q \in 0..n : q * b >= n /\ (q = 0 \/ (q - 1) * b < n)

\* how often sample index i occurs in a list of windows
Occurrences(windows, i) ==
  Cardinality({ jk \in { << j, k >> : j \in DOMAIN windows, k \in 1..MaxSamples + 1 } :
                  jk[2] \in DOMAIN windows[jk[1]] /\ windows[jk[1]][jk[2]] = i })

(***************************************************************************)
(* C1: when a pass ends (next() raises StopIteration), the pass has        *)
(* yielded exactly ceil(N / batch_size) batches and every sample index of  *)
(* 0..N-1 lies in exactly one position of exactly one of their windows,    *)
(* with shuffle on or off.                                                 *)
(***************************************************************************)
C1_FullPassCoversEachIndexOnce ==
  NextRaised("StopIteration") =>
    /\ Len(yielded) = CeilDiv(loader.len, args.batch_size)
    /\ loader.n_batch = CeilDiv(loader.len, args.batch_size)
    /\ \A i \in 0..(loader.len - 1) : Occurrences(yielded, i) = 1
    /\ \A j \in DOMAIN yielded : \A k \in DOMAIN yielded[j] :
         yielded[j][k] \in 0..(loader.len - 1)

\* a shuffled pass of several batches, the last one short, has ended
C1_Witness ==
  /\ NextRaised("StopIteration")
  /\ loader.cls = "train" /\ loader.shuffle
  /\ loader.yield_idx # Arange(loader.len)
  /\ Len(yielded) >= 2
  /\ loader.len % args.batch_size # 0

(***************************************************************************)
(* C2: a constructed loader has the same sample count N in every channel   *)
(* file it was given, not only in the first, and in the label vector.      *)
(***************************************************************************)
C2_EveryChannelHasNSamples ==
  phase = "constructed" =>
    /\ \A c \in DOMAIN args.seq_inp_path : Len(disk[args.seq_inp_path[c]]) = loader.len
    /\ loader.cls = "train" => Len(disk[args.label_artifact_path]) = loader.len

(***************************************************************************)
(* C3: construction never succeeds when the channel-name list and the      *)
(* channel-path list differ in length.                                     *)
(***************************************************************************)
C3_UnequalListsRejected ==
  phase = "constructed" => Len(args.seq_inp_target) = Len(args.seq_inp_path)

(***************************************************************************)
(* C4: in every yielded batch, label k, row k of every channel's tensor    *)
(* and last-index k belong to sample window[k]; row k of channel c starts  *)
(* with that sample's embedded sequence; and the list of tensors has one   *)
(* tensor per declared channel, in declared order.                         *)
(***************************************************************************)
C4_RowsAligned ==
  BatchYielded =>
    /\ Len(BatchLastIdx) = Len(Window)
    /\ \A k \in DOMAIN Window : BatchLastIdx[k] = loader.inp_last_idx[Window[k] + 1]
    /\ loader.cls = "train" =>
         /\ Len(BatchLabels) = Len(Window)
         /\ \A k \in DOMAIN Window :
              BatchLabels[k] = disk[args.label_artifact_path][Window[k] + 1]
    /\ \A c \in DOMAIN BatchTensors :
         /\ Len(BatchTensors[c]) = Len(Window)
         /\ \A k \in DOMAIN Window :
              SubSeq(BatchTensors[c][k], 1, TruncLen(c, Window[k])) = Embedded(c, Window[k])

C4_AlignedOneTensorPerChannel ==
  /\ C4_RowsAligned
  /\ BatchYielded => DOMAIN BatchTensors = DOMAIN args.seq_inp_target

(***************************************************************************)
(* C5: in every yielded batch each channel's tensor has len(window) rows,  *)
(* and every row is as wide as the longest truncated sequence of that      *)
(* channel among the samples of this window, never wider than max_seq_len. *)
(***************************************************************************)
C5_BatchLocalWidth ==
  BatchYielded =>
    \A c \in DOMAIN BatchTensors :
      /\ Len(BatchTensors[c]) = Len(Window)
      /\ \A k \in DOMAIN Window :
           /\ \E m \in DOMAIN Window : Len(BatchTensors[c][k]) = TruncLen(c, Window[m])
           /\ \A m \in DOMAIN Window : Len(BatchTensors[c][k]) >= TruncLen(c, Window[m])
           /\ Len(BatchTensors[c][k]) <= args.max_seq_len

\* a batch of several rows narrower than a sample outside its window
C5_Witness ==
  /\ BatchYielded
  /\ Len(Window) >= 2
  /\ \E c \in DOMAIN BatchTensors : \E i \in 0..(loader.len - 1) :
       /\ i \notin Range(Window)
       /\ i + 1 \in DOMAIN disk[args.seq_inp_path[c]]
       /\ TruncLen(c, i) > Len(BatchTensors[c][1])
       /\ \E k, m \in DOMAIN Window : TruncLen(c, Window[k]) # TruncLen(c, Window[m])

(***************************************************************************)
(* C6: in every yielded batch, every position of a row at or beyond the    *)
(* sample's truncated length holds the zero vector of the channel's        *)
(* embedding dimension.                                                    *)
(***************************************************************************)
C6_PaddingIsZero ==
  BatchYielded =>
    \A c \in DOMAIN BatchTensors : \A k \in DOMAIN Window :
      \A p \in (TruncLen(c, Window[k]) + 1)..Len(BatchTensors[c][k]) :
        /\ Len(BatchTensors[c][k][p]) = Len(Embedded(c, Window[k])[1])
        /\ \A d \in DOMAIN BatchTensors[c][k][p] : BatchTensors[c][k][p][d] = 0

\* a yielded row with at least one padded position
C6_Witness ==
  /\ BatchYielded
  /\ \E c \in DOMAIN BatchTensors : \E k \in DOMAIN Window :
       /\ Len(BatchTensors[c][k]) > TruncLen(c, Window[k])
       /\ Len(BatchTensors[c][k][1]) >= 2

(***************************************************************************)
(* C7: the last-index reported for a sample in any yielded batch is        *)
(* min(raw length of its sequence in the first channel, max_seq_len) - 1.  *)
(***************************************************************************)
C7_LastIdxIsTruncLenMinusOne ==
  BatchYielded =>
    \A k \in DOMAIN Window :
      BatchLastIdx[k] = Min(Len(RawSeq(1, Window[k])), args.max_seq_len) - 1

\* a truncated sample yielded together with a shorter one, shuffled
C7_Witness ==
  /\ BatchYielded
  /\ loader.cls = "train" /\ loader.shuffle
  /\ \E k, m \in DOMAIN Window :
       /\ Len(RawSeq(1, Window[k])) > args.max_seq_len
       /\ Len(RawSeq(1, Window[m])) < args.max_seq_len
       /\ BatchLastIdx[k] = args.max_seq_len - 1

(***************************************************************************)
(* C8: the permutation never changes after construction; iter() sets the   *)
(* cursor to 0; and after a restart the j-th yielded window equals the     *)
(* j-th window of the first pass.                                          *)
(***************************************************************************)
C8_PermutationStableAcrossRestarts ==
  /\ [][phase = "constructed" => loader'.yield_idx = loader.yield_idx]_vars
  /\ [](phase = "constructed" /\ out.call = "iter" => loader.cur_batch = 0)
  /\ [](restarted =>
          \A j \in DOMAIN yielded : j \in DOMAIN first_pass => yielded[j] = first_pass[j])

\* after a restart in the middle of a shuffled pass, a second batch is yielded
C8_Witness ==
  /\ BatchYielded
  /\ restarted
  /\ loader.cls = "train" /\ loader.shuffle
  /\ loader.yield_idx # Arange(loader.len)
  /\ Len(yielded) >= 2
  /\ Len(first_pass) >= 2
  /\ Len(first_pass) < loader.n_batch

(***************************************************************************)
(* C9: a train loader built with shuffle disabled and its twin, built from *)
(* the same inputs and driven by the same calls, return the same thing at  *)
(* every call; and the j-th window is j*batch_size ..                      *)
(* min((j+1)*batch_size, N) - 1 in ascending order.                        *)
(***************************************************************************)
C9_UnshuffledDeterministic ==
  (phase = "constructed" /\ loader.cls = "train" /\ ~loader.shuffle) =>
    /\ out = twin_out
    /\ BatchYielded =>
         /\ yielded[Len(yielded)] =
              [k \in 1..(Min((CursorBefore + 1) * args.batch_size, loader.len)
                           - CursorBefore * args.batch_size) |->
                 CursorBefore * args.batch_size + k - 1]
         /\ Len(yielded) = CursorBefore + 1

\* an unshuffled train loader yields its short last batch, as does its twin
C9_Witness ==
  /\ BatchYielded
  /\ loader.cls = "train" /\ ~loader.shuffle
  /\ twin_out.ret.ok
  /\ CursorBefore >= 1
  /\ Len(yielded[Len(yielded)]) < args.batch_size

(***************************************************************************)
(* C10: a next() at cursor = n_batch raises StopIteration, yields nothing  *)
(* and leaves the loader as it is, however often it is repeated; a next()  *)
(* at cursor < n_batch never raises StopIteration.                         *)
(***************************************************************************)
C10_ExhaustedStaysExhausted ==
  [][(CallNext /\ "cur_batch" \in DOMAIN loader) =>
       IF loader.cur_batch = loader.n_batch
       THEN /\ ~out'.ret.ok /\ out'.ret.exc = "StopIteration"
            /\ loader' = loader
            /\ yielded' = yielded
       ELSE out'.ret.ok \/ out'.ret.exc # "StopIteration"]_vars

\* StopIteration is raised again after a pass of several batches has ended
C10_Witness ==
  /\ NextRaised("StopIteration")
  /\ loader.cur_batch = loader.n_batch
  /\ loader.n_batch >= 2
  /\ Len(yielded) = loader.n_batch

(***************************************************************************)
(* Vocabulary of the construction properties: a channel is a name paired   *)
(* with a path by position.                                                *)
(***************************************************************************)
\* the channels whose name has a table and whose file is on disk
Channels ==
  { c \in DOMAIN args.seq_inp_target \cap DOMAIN args.seq_inp_path :
      /\ args.seq_inp_target[c] \in DOMAIN w2v_registry
      /\ args.seq_inp_path[c] \in DOMAIN disk }

\* the first max_seq_len tokens of sample k (1-based) of channel c
HeadOf(c, k) == SubSeq(disk[args.seq_inp_path[c]][k], 1,
                     Min(Len(disk[args.seq_inp_path[c]][k]), args.max_seq_len))

\* sample k of channel c has a token, among those, that is not in the table
UnknownIn(c, k) ==
  \E p \in DOMAIN HeadOf(c, k) :
    HeadOf(c, k)[p] \notin DOMAIN Word2Vec[w2v_registry[args.seq_inp_target[c]]]

Samples(c) == DOMAIN disk[args.seq_inp_path[c]]

HasUnknownToken ==
  phase # "start" /\ \E c \in Channels : \E k \in Samples(c) : UnknownIn(c, k)

\* sample k of channel c is read before sample m of channel d
ReadBefore(c, k, d, m) == c < d \/ (c = d /\ k < m)

\* some sample read before every sample with an unknown token has no token
\* among its first max_seq_len
EmptyReadFirst ==
  \E c \in Channels : \E k \in Samples(c) :
    /\ Len(HeadOf(c, k)) = 0
    /\ \A d \in Channels : \A m \in Samples(d) : UnknownIn(d, m) => ReadBefore(c, k, d, m)

NothingProduced == phase = "failed" /\ loader = << >> /\ yielded = << >> /\ out = NoCall

C12_WindowLengths ==
  BatchYielded =>
    LET expected == IF CursorBefore = loader.n_batch - 1 /\ loader.len % args.batch_size # 0
                    THEN loader.len % args.batch_size
                    ELSE args.batch_size
    IN  /\ Len(yielded[Len(yielded)]) = expected
        /\ Len(BatchLastIdx) = expected
        /\ \A c \in DOMAIN BatchTensors : Len(BatchTensors[c]) = expected
        /\ expected >= 1
        /\ args.batch_size > loader.len => expected = loader.len

\* the one window of a loader whose batch_size exceeds its N >= 2
C12_Witness ==
  /\ BatchYielded
  /\ args.batch_size > loader.len
  /\ loader.len >= 2
  /\ loader.n_batch = 1
  /\ Len(yielded[1]) = loader.len

(***************************************************************************)
(* C13: once iteration has begun 0 <= cursor <= n_batch; a next() that     *)
(* yields a batch adds exactly 1 to the cursor, a next() that raises       *)
(* leaves it as it is, and the cursor decreases only in iter(), to 0.      *)
(***************************************************************************)
C13_CursorBoundedAndMonotone ==
  /\ []((phase = "constructed" /\ "cur_batch" \in DOMAIN loader) =>
          (0 <= loader.cur_batch /\ loader.cur_batch <= loader.n_batch))
  /\ [][(phase = "constructed" /\ "cur_batch" \in DOMAIN loader) =>
          /\ (out'.call = "next" /\ out'.ret.ok) => loader'.cur_batch = loader.cur_batch + 1
          /\ (out'.call = "next" /\ ~out'.ret.ok) => loader'.cur_batch = loader.cur_batch
          /\ out'.call = "len" => loader'.cur_batch = loader.cur_batch
          /\ loader'.cur_batch < loader.cur_batch =>
               (out'.call = "iter" /\ loader'.cur_batch = 0)]_vars

\* the cursor of a test loader stands at n_batch >= 2 after its last batch
C13_Witness ==
  /\ BatchYielded
  /\ loader.cls = "test"
  /\ loader.cur_batch = loader.n_batch
  /\ loader.n_batch >= 2

\* the sample count N of the inputs: the labels of a train loader, the
\* sequences of the first channel of a test loader
SampleCount ==
  IF loader.cls = "train" THEN Len(disk[args.label_artifact_path])
  ELSE Len(disk[args.seq_inp_path[1]])

\* what len(loader) returns
LenOfLoader ==
  IF loader.cls = "train" THEN train_data_loader_len(loader) ELSE test_data_loader_len(loader)

(***************************************************************************)
(* C14: after construction no call of iter(), next() or len() changes or   *)
(* removes any attribute of the loader but cur_batch (the labels, the      *)
(* embedded sequences, the last-index array, the permutation, n_batch and  *)
(* batch_size among them), and len() reports N at every moment.            *)
(***************************************************************************)
C14_OnlyCursorChanges ==
  /\ [][phase = "constructed" =>
          /\ DOMAIN loader' \ {"cur_batch"} = DOMAIN loader \ {"cur_batch"}
          /\ \A f \in DOMAIN loader \ {"cur_batch"} : loader'[f] = loader[f]]_vars
  /\ [](phase = "constructed" =>
          /\ LenOfLoader = SampleCount
          /\ out.call = "len" => out.ret.val = SampleCount)

\* len() is called after a restart, in the middle of the second pass
C14_Witness ==
  /\ phase = "constructed"
  /\ out.call = "len"
  /\ out.ret.val >= 2
  /\ restarted
  /\ Len(yielded) >= 1
  /\ Len(first_pass) >= 2
  /\ loader.cur_batch < loader.n_batch

(***************************************************************************)
(* C15: in every yielded batch each entry of the last-index batch is a     *)
(* position of the padded tensor of every channel: at least 0 and below    *)
(* the width of the row of its sample, in each channel of the batch.       *)
(***************************************************************************)
C15_LastIdxValidInEveryChannel ==
  BatchYielded =>
    \A c \in DOMAIN BatchTensors : \A k \in DOMAIN BatchLastIdx :
      /\ 0 <= BatchLastIdx[k]
      /\ BatchLastIdx[k] < Len(BatchTensors[c][k])

\* the j-th window (1-based) of the permutation of the loader
WindowAt(j) == Slice(loader.yield_idx, (j - 1) * args.batch_size, j * args.batch_size)

(***************************************************************************)
(* C16: every iterator of a loader is the loader, so its consumers share   *)
(* one cursor.  When two consumers interleave next() calls, the windows    *)
(* delivered in the pass are the first cur_batch windows of the            *)
(* permutation, each delivered to exactly one consumer and no sample index *)
(* to both; an iter() call by either consumer sets the cursor to 0 and     *)
(* discards the progress of both, and the next batch, whoever asks for it, *)
(* is the first window.                                                    *)
(***************************************************************************)
C16_SharedCursor ==
  /\ [](phase = "constructed" /\ "cur_batch" \in DOMAIN loader =>
          /\ Len(yielded) = loader.cur_batch
          /\ \A j \in DOMAIN yielded : yielded[j] = WindowAt(j)
          /\ Len(received["c1"]) + Len(received["c2"]) = loader.cur_batch
          /\ \A c \in Consumers : Range(received[c]) \subseteq Range(yielded)
          /\ \A j \in DOMAIN yielded :
               (yielded[j] \in Range(received["c1"])) # (yielded[j] \in Range(received["c2"]))
          /\ \A i \in 0..(loader.len - 1) :
               Occurrences(received["c1"] \o received["c2"], i) <= 1)
  /\ [][/\ phase' = "constructed" /\ out'.call = "iter" =>
             loader'.cur_batch = 0 /\ \A c \in Consumers : received'[c] = << >>
        /\ phase = "constructed" /\ out.call = "iter" /\ out'.call = "next" /\ out'.ret.ok =>
             received'[caller'] = << Slice(loader.yield_idx, 0, args.batch_size) >>]_vars

\* c2 restarted the pass while c1 was in it; both received batches since,
\* c1 the latest
C16_Witness ==
  /\ BatchYielded
  /\ restarted
  /\ caller = "c1"
  /\ reset_by = "c2"
  /\ Len(received["c1"]) >= 1
  /\ Len(received["c2"]) >= 1
  /\ Len(first_pass) >= 1

(***************************************************************************)
(* C17: on a constructed loader whose iter() was never called (no cursor)  *)
(* a next() call raises (AttributeError on self.cur_batch), yields no      *)
(* batch and leaves the loader and what was delivered as they were; a      *)
(* batch is yielded only when the cursor has been set by iter().           *)
(***************************************************************************)
C17_NoBatchBeforeIter ==
  /\ [][phase = "constructed" /\ "cur_batch" \notin DOMAIN loader /\ out'.call = "next" =>
          /\ ~out'.ret.ok
          /\ out'.ret.exc = "AttributeError"
          /\ loader' = loader
          /\ yielded' = yielded /\ yielded' = << >>
          /\ received' = received]_vars
  /\ [](BatchYielded => "cur_batch" \in DOMAIN loader)
  /\ [](phase = "constructed" /\ "cur_batch" \notin DOMAIN loader => yielded = << >>)

\* next() was called on a loader with batches to yield and no cursor
C17_Witness ==
  /\ NextRaised("AttributeError")
  /\ "cur_batch" \notin DOMAIN loader
  /\ loader.n_batch >= 2
  /\ yielded = << >>

\* the windows of a pass joined in the order they were yielded
RECURSIVE Concat(_)
Concat(windows) ==
  IF windows = << >> THEN << >> ELSE Head(windows) \o Concat(Tail(windows))

\* the indices lo .. hi - 1 in ascending order
Ascending(lo, hi) == [k \in 1..(hi - lo) |-> lo + k - 1]

(***************************************************************************)
(* C18: the inference loader keeps the identity permutation: in every      *)
(* pass, the first included, its j-th batch (from 0) covers the indices    *)
(* j*batch_size .. min((j+1)*batch_size, N) - 1 in ascending order, its    *)
(* last indices are the stored ones of those samples in that order, and    *)
(* the batches of a finished pass joined give 0 .. N-1, the stored order.  *)
(***************************************************************************)
C18_TestLoaderStoredOrder ==
  phase = "constructed" /\ loader.cls = "test" =>
    /\ loader.yield_idx = Ascending(0, SampleCount)
    /\ \A j \in DOMAIN yielded :
         yielded[j] = Ascending((j - 1) * args.batch_size, Min(j * args.batch_size, SampleCount))
    /\ BatchYielded =>
         BatchLastIdx =
           [k \in 1..Len(Window) |-> loader.inp_last_idx[CursorBefore * args.batch_size + k]]
    /\ NextRaised("StopIteration") => Concat(yielded) = Ascending(0, SampleCount)

\* a second pass of the inference loader has ended, its last batch shorter
C18_Witness ==
  /\ phase = "constructed"
  /\ loader.cls = "test"
  /\ NextRaised("StopIteration")
  /\ restarted
  /\ Len(first_pass) >= 2
  /\ Len(yielded) >= 2
  /\ Len(yielded[Len(yielded)]) < Len(yielded[1])
  /\ SampleCount >= 3
  /\ Concat(yielded) = Ascending(0, SampleCount)

\* a sample of a loaded channel has no token at all
EmptySampleLoaded ==
  \E c \in Channels : \E k \in DOMAIN disk[args.seq_inp_path[c]] :
    Len(disk[args.seq_inp_path[c]][k]) = 0

(***************************************************************************)
(* C19: with max_seq_len >= 1, every entry of the last-index array of a    *)
(* constructed loader is between 0 and max_seq_len - 1 and every stored    *)
(* sequence of every channel has at least one row; when a sample of a      *)
(* loaded channel has an empty raw sequence the construction fails and no  *)
(* loader, hence no last index of -1 and no all-padding row, exists.       *)
(***************************************************************************)
C19_LastIdxWithinBounds ==
  /\ phase = "constructed" /\ args.max_seq_len >= 1 =>
       /\ \A k \in DOMAIN loader.inp_last_idx :
            0 <= loader.inp_last_idx[k] /\ loader.inp_last_idx[k] <= args.max_seq_len - 1
       /\ \A c \in DOMAIN loader.inp_seq : \A k \in DOMAIN loader.inp_seq[c] :
            Len(loader.inp_seq[c][k]) >= 1
       /\ BatchYielded =>
            /\ \A k \in DOMAIN BatchLastIdx : BatchLastIdx[k] >= 0
            /\ \A c \in DOMAIN BatchTensors : \A k \in DOMAIN BatchTensors[c] :
                 Len(BatchTensors[c][k]) >= 1
  /\ phase # "start" /\ args.max_seq_len >= 1 /\ EmptySampleLoaded =>
       phase = "failed" /\ loader = << >> /\ out = NoCall

\* construction failed in np.stack on a sample without tokens, the
\* arguments being accepted and max_seq_len at least 1
C19_Witness ==
  /\ phase = "failed"
  /\ args.max_seq_len >= 1
  /\ EmptySampleLoaded
  /\ error.exc = "ValueError"
  /\ error.step = "np.stack"
  /\ loader = << >>

====
